---- MODULE Spec2Model ----
(***************************************************************************)
(* FusionTranslator: the provider adapters (Alibaba, MyMemory, Baidu,      *)
(* Youdao, Caiyun), the translator factory and the Youdao truncate         *)
(* function, as state machines.                                            *)
(*                                                                         *)
(* A Rust String is a sequence of characters; a character is a one-letter  *)
(* TLA+ string, or "U+XXXX" for a character outside ASCII.  len() and      *)
(* slicing count UTF-8 bytes, so every character has a Width.              *)
(***************************************************************************)
EXTENDS Integers, Sequences, FiniteSets, TLC

VARIABLES
    adapter,   \* the adapter instance the calls go to (its fields)
    context,   \* Youdao only: the counter of the uuid Context of the instance
    pc,        \* "idle" | "sent" (request in flight) | "done"
    call,      \* the arguments of the current call
    req,       \* the request handed to the HTTP client by the current call
    resp,      \* the response the transport delivered to the current call
    sent,      \* number of requests sent during the current call
    result,    \* what the current call returned
    env,       \* factory: the process environment variables
    ident,     \* factory: the provider identifier given to parse
    ttype,     \* factory: what parse returned
    made,      \* factory: what the last factory function returned
    tin,       \* truncate: the argument
    tout,      \* truncate: the value returned
    fname,     \* pure functions: the function being called
    fargs,     \* pure functions: its arguments
    fret       \* pure functions: what it returned

vars == <<adapter, context, pc, call, req, resp, sent, result,
          env, ident, ttype, made, tin, tout, fname, fargs, fret>>

adapterVars == <<adapter, context, pc, call, req, resp, sent, result>>
factoryVars == <<env, ident, ttype, made>>
truncVars == <<tin, tout>>
pureVars == <<fname, fargs, fret>>

----------------------------------------------------------------------------
(* Strings *)

LF == "\n"
QUOTE == "\""
BACKSLASH == "\\"

\* Characters outside ASCII that the model uses, by UTF-8 width.
Wide3 == {"U+5F69", "U+4E91", "U+4F60"}
Wide2 == {"U+00E9"}

Width(c) == IF c \in Wide3 THEN 3 ELSE IF c \in Wide2 THEN 2 ELSE 1

\* str::len: the number of UTF-8 bytes
ByteLen(s) ==
    Len(s) + 2 * Cardinality({i \in 1..Len(s) : Width(s[i]) = 3})
           + Cardinality({i \in 1..Len(s) : Width(s[i]) = 2})

Rep(c, n) == [i \in 1..n |-> c]

RECURSIVE Concat(_)
Concat(ss) == IF ss = <<>> THEN <<>> ELSE Head(ss) \o Concat(Tail(ss))

RECURSIVE Join(_, _)
Join(ss, sep) ==
    IF ss = <<>> THEN <<>>
    ELSE IF Len(ss) = 1 THEN ss[1]
    ELSE ss[1] \o sep \o Join(Tail(ss), sep)

StartsAt(s, i, d) == i + Len(d) - 1 <= Len(s) /\ SubSeq(s, i, i + Len(d) - 1) = d

FindFirst(s, d) ==
    IF \E i \in 1..Len(s) : StartsAt(s, i, d)
    THEN CHOOSE i \in 1..Len(s) : StartsAt(s, i, d) /\ \A j \in 1..(i - 1) : ~StartsAt(s, j, d)
    ELSE 0

RECURSIVE Split(_, _)
Split(s, d) ==
    LET i == FindFirst(s, d) IN
    IF i = 0 THEN <<s>>
    ELSE <<SubSeq(s, 1, i - 1)>> \o Split(SubSeq(s, i + Len(d), Len(s)), d)

Digit(k) == CASE k = 0 -> "0" [] k = 1 -> "1" [] k = 2 -> "2" [] k = 3 -> "3"
              [] k = 4 -> "4" [] k = 5 -> "5" [] k = 6 -> "6" [] k = 7 -> "7"
              [] k = 8 -> "8" [] k = 9 -> "9"

RECURSIVE Dec(_)
Dec(n) == IF n < 10 THEN <<Digit(n)>> ELSE Dec(n \div 10) \o <<Digit(n % 10)>>

----------------------------------------------------------------------------
(* Languages and wire codes *)

NoLang == "None"
Languages == {"Chinese", "English", "ClassicalChinese", "Otomi"}
NoCode == <<"?none">>

to_baidu(l) ==
    CASE l = "Chinese" -> <<"z", "h">>
      [] l = "English" -> <<"e", "n">>
      [] l = "ClassicalChinese" -> <<"w", "y", "w">>
      [] OTHER -> NoCode

from_baidu(c) ==
    CASE c = <<"z", "h">> -> "Chinese"
      [] c = <<"e", "n">> -> "English"
      [] c = <<"w", "y", "w">> -> "ClassicalChinese"
      [] OTHER -> NoLang

to_youdao(l) ==
    CASE l = "Chinese" -> <<"z", "h", "-", "C", "H", "S">>
      [] l = "English" -> <<"e", "n">>
      [] l = "Otomi" -> <<"o", "t", "q">>
      [] OTHER -> NoCode

to_caiyun(l) ==
    CASE l = "Chinese" -> <<"z", "h">>
      [] l = "English" -> <<"e", "n">>
      [] OTHER -> NoCode

to_mymemory(l) ==
    CASE l = "Chinese" -> <<"z", "h", "-", "C", "N">>
      [] l = "English" -> <<"e", "n", "-", "G", "B">>
      [] OTHER -> NoCode

to_mymemory_short(l) ==
    CASE l = "Chinese" -> <<"z", "h">>
      [] l = "English" -> <<"e", "n">>
      [] OTHER -> NoCode

\* from_youdao with the code of Chinese written as in the other tables
from_youdao_short(c) ==
    CASE c = <<"z", "h">> -> "Chinese"
      [] c = <<"e", "n">> -> "English"
      [] c = <<"o", "t", "q">> -> "Otomi"
      [] OTHER -> NoLang

from_youdao(c) ==
    CASE c = <<"z", "h", "-", "C", "H", "S">> -> "Chinese"
      [] c = <<"e", "n">> -> "English"
      [] c = <<"o", "t", "q">> -> "Otomi"
      [] OTHER -> NoLang

from_caiyun(c) ==
    CASE c = <<"z", "h">> -> "Chinese"
      [] c = <<"e", "n">> -> "English"
      [] OTHER -> NoLang

from_mymemory(c) ==
    CASE c = <<"z", "h", "-", "C", "N">> -> "Chinese"
      [] c = <<"e", "n", "-", "G", "B">> -> "English"
      [] OTHER -> NoLang

from_mymemory_short(c) ==
    CASE c = <<"z", "h">> -> "Chinese"
      [] c = <<"e", "n">> -> "English"
      [] OTHER -> NoLang

\* The encode and the decode mapping of a provider's vocabulary
Encode(vocabulary, l) ==
    CASE vocabulary = "baidu" -> to_baidu(l)
      [] vocabulary = "youdao" -> to_youdao(l)
      [] vocabulary = "caiyun" -> to_caiyun(l)
      [] vocabulary = "mymemory" -> to_mymemory(l)
      [] vocabulary = "mymemory_short" -> to_mymemory_short(l)

Decode(vocabulary, c) ==
    CASE vocabulary = "baidu" -> from_baidu(c)
      [] vocabulary = "youdao" -> from_youdao(c)
      [] vocabulary = "caiyun" -> from_caiyun(c)
      [] vocabulary = "mymemory" -> from_mymemory(c)
      [] vocabulary = "mymemory_short" -> from_mymemory_short(c)

Auto == <<"a", "u", "t", "o">>
Autodetect == <<"A", "u", "t", "o", "d", "e", "t", "e", "c", "t">>

----------------------------------------------------------------------------
(* Values returned by the calls: Result<TranslationOutput, Error>,          *)
(* Result<TranslationListOutput, Error>, or a panic.  One record shape:     *)
(*   kind  "None" | "Ok" | "OkList" | "Err" | "Panic"                       *)
(*   tag   the TranslatorError variant (or the reqwest error kind)          *)
(*   elang, estr, emsg, n1, n2   the payload of the error                   *)
(*   text  TranslationOutput.text;  list  TranslationListOutput.text        *)
(*   lang  the lang field, NoLang for Option::None                          *)

Mk(kind, tag, elang, estr, emsg, n1, n2, text, list, lang) ==
    [kind |-> kind, tag |-> tag, elang |-> elang, estr |-> estr, emsg |-> emsg,
     n1 |-> n1, n2 |-> n2, text |-> text, list |-> list, lang |-> lang]

NoResult == Mk("None", "", NoLang, <<>>, "", 0, 0, <<>>, <<>>, NoLang)
Panic == Mk("Panic", "", NoLang, <<>>, "", 0, 0, <<>>, <<>>, NoLang)
TranslationOutput(text, lang) == Mk("Ok", "", NoLang, <<>>, "", 0, 0, text, <<>>, lang)
TranslationListOutput(list, lang) == Mk("OkList", "", NoLang, <<>>, "", 0, 0, <<>>, list, lang)

UnknownLanguage(l) == Mk("Err", "UnknownLanguage", l, <<>>, "", 0, 0, <<>>, <<>>, NoLang)
CouldNotMapLanguage(s) == Mk("Err", "CouldNotMapLanguage", NoLang, s, "", 0, 0, <<>>, <<>>, NoLang)
NoResponse == Mk("Err", "NoResponse", NoLang, <<>>, "", 0, 0, <<>>, <<>>, NoLang)
RequestToLong(n, limit) == Mk("Err", "RequestToLong", NoLang, <<>>, "", n, limit, <<>>, <<>>, NoLang)
RequestFailed(status) == Mk("Err", "RequestFailed", NoLang, <<>>, "", status, 0, <<>>, <<>>, NoLang)
ApiErrorBaidu(code, message) == Mk("Err", "ApiError", NoLang, code, message, 0, 0, <<>>, <<>>, NoLang)
\* reqwest::Error from send() (connection, timeout) and from json() (decode)
ReqwestSend == Mk("Err", "ReqwestSend", NoLang, <<>>, "", 0, 0, <<>>, <<>>, NoLang)
ReqwestDecode == Mk("Err", "ReqwestDecode", NoLang, <<>>, "", 0, 0, <<>>, <<>>, NoLang)

----------------------------------------------------------------------------
(* JSON values of a response body: t is the JSON type, v the string's       *)
(* characters, the number's digits or the array's elements.                 *)

JAbsent == [t |-> "absent", v |-> <<>>]
JNull == [t |-> "null", v |-> <<>>]
JStr(s) == [t |-> "str", v |-> s]
JNum(digits) == [t |-> "num", v |-> digits]
JList(l) == [t |-> "list", v |-> l]

\* serde_json's escaping of one character inside a JSON string
EscapeChar(c) ==
    IF c = QUOTE THEN <<BACKSLASH, QUOTE>>
    ELSE IF c = BACKSLASH THEN <<BACKSLASH, BACKSLASH>>
    ELSE IF c = LF THEN <<BACKSLASH, "n">>
    ELSE <<c>>

RECURSIVE Escape(_)
Escape(s) == IF s = <<>> THEN <<>> ELSE EscapeChar(Head(s)) \o Escape(Tail(s))

Quoted(s) == <<QUOTE>> \o Escape(s) \o <<QUOTE>>

RECURSIVE QuotedAll(_)
QuotedAll(l) == IF l = <<>> THEN <<>> ELSE <<Quoted(Head(l))>> \o QuotedAll(Tail(l))

\* Value::to_string(): the JSON text of the value.  Indexing a missing key
\* gives Value::Null, so an absent field prints as null too.
ValueToString(j) ==
    CASE j.t = "str" -> Quoted(j.v)
      [] j.t = "num" -> j.v
      [] j.t = "list" -> <<"[">> \o Join(QuotedAll(j.v), <<",">>) \o <<"]">>
      [] OTHER -> <<"n", "u", "l", "l">>

\* A response as the HTTP client delivers it.  transport = "fail": send()
\* returned an error.  json = FALSE: the body is not JSON.  text is the value at
\* data.translateText (Alibaba) or responseData.translatedText (MyMemory).
Response(transport, status, json, text, to, trans_result, error_code, error_msg,
         target, translation) ==
    [transport |-> transport, status |-> status, json |-> json, text |-> text,
     to |-> to, trans_result |-> trans_result, error_code |-> error_code,
     error_msg |-> error_msg, target |-> target, translation |-> translation]

NoResponseYet ==
    Response("none", 0, FALSE, JAbsent, JAbsent, JAbsent, JAbsent, JAbsent, JAbsent, JAbsent)

\* StatusCode::is_success
is_success(status) == status >= 200 /\ status < 300

----------------------------------------------------------------------------
(* Requests.  One record shape; sign is the digest's name and its input.    *)

NoSign == [alg |-> "none", data |-> <<>>]
Digest(alg, data) == [alg |-> alg, data |-> data]

Request(method, from, to, q, source, detect, salt, curtime, appid, sign) ==
    [method |-> method, from |-> from, to |-> to, q |-> q, source |-> source,
     detect |-> detect, salt |-> salt, curtime |-> curtime, appid |-> appid,
     sign |-> sign]

NoRequest == Request("none", <<>>, <<>>, <<>>, <<>>, "omitted", <<>>, 0, <<>>, NoSign)

\* What the part of a call before the network did: the error it returned (or
\* NoResult), the request it sent, how many requests it sent, and the uuid
\* Context counter it left.
Pre(err, request, sends, ctx) ==
    [err |-> err, req |-> request, sends |-> sends, ctx |-> ctx]

Fail(err, ctx) == Pre(err, NoRequest, 0, ctx)
Send(request, ctx) == Pre(NoResult, request, 1, ctx)

----------------------------------------------------------------------------
(* Youdao: truncate, the nonce and the node identifier *)

\* Byte offset (0-based) at which character i of s starts
Offset(s, i) == ByteLen(SubSeq(s, 1, i - 1))

\* str::is_char_boundary
IsCharBoundary(s, b) == \E i \in 1..(Len(s) + 1) : Offset(s, i) = b

\* &s[a..b] for byte offsets that are character boundaries
ByteSlice(s, a, b) ==
    LET idx == {i \in 1..Len(s) : Offset(s, i) >= a /\ Offset(s, i) + Width(s[i]) <= b}
        lo == IF idx = {} THEN 1 ELSE CHOOSE i \in idx : \A j \in idx : i <= j
    IN  SubSeq(s, lo, lo + Cardinality(idx) - 1)

TruncateKeep == 10
TruncateMax == 20

\* truncate with the test written size < 20
truncateOffByOne(s) ==
    LET size == ByteLen(s) IN
    IF size < TruncateMax THEN [kind |-> "Ok", text |-> s]
    ELSE IF ~IsCharBoundary(s, TruncateKeep) \/ ~IsCharBoundary(s, size - TruncateKeep)
         THEN [kind |-> "Panic", text |-> <<>>]
    ELSE [kind |-> "Ok",
          text |-> ByteSlice(s, 0, TruncateKeep) \o Dec(size)
                   \o ByteSlice(s, size - TruncateKeep, size)]

\* truncate: [kind |-> "Ok", text |-> ...], or a panic when a slice bound falls
\* inside a character.
truncate(s) ==
    LET size == ByteLen(s) IN
    IF size <= TruncateMax THEN [kind |-> "Ok", text |-> s]
    ELSE IF ~IsCharBoundary(s, TruncateKeep) \/ ~IsCharBoundary(s, size - TruncateKeep)
         THEN [kind |-> "Panic", text |-> <<>>]
    ELSE [kind |-> "Ok",
          text |-> ByteSlice(s, 0, TruncateKeep) \o Dec(size)
                   \o ByteSlice(s, size - TruncateKeep, size)]

\* generate_random_mac that sets bit 1 and leaves bit 0 as drawn
generate_random_mac_group(draw) ==
    [draw EXCEPT ![1] = (draw[1] - (draw[1] % 4)) + 2 + (draw[1] % 2)]

\* generate_random_mac: the first drawn byte with bit 1 set and bit 0 cleared
generate_random_mac(draw) ==
    [draw EXCEPT ![1] = (draw[1] - (draw[1] % 4)) + 2]

SeqMask == 16384

\* Context::generate_sequence: the counter's value in 14 bits
ClockSequence(count) == count % SeqMask

\* Uuid::new_v1(ts, mac).to_string(): the time, the clock sequence and the node
\* identifier, each printed in full
UuidV1(secs, count, mac) ==
    Dec(secs) \o <<"-">> \o Dec(ClockSequence(count)) \o <<"-">>
        \o Join([i \in 1..Len(mac) |-> Dec(mac[i])], <<":">>)

----------------------------------------------------------------------------
(* The adapters.  adapter.kind names the provider; id and secret are the two *)
(* strings it was constructed with.                                          *)

Providers == {"Baidu", "Youdao", "Alibaba", "Caiyun", "MyMemory"}

Adapter(kind, id, secret, input_limit, mac) ==
    [kind |-> kind, id |-> id, secret |-> secret, input_limit |-> input_limit,
     mac |-> mac]

NoAdapter == Adapter("None", <<>>, <<>>, 0, <<>>)
InputLimit == 500
Demo == <<"d", "e", "m", "o">>

BaiduTranslatorNew(app_id, key) == Adapter("Baidu", app_id, key, 0, <<>>)
YoudaoTranslatorNew(app_key, app_secret, draw) ==
    Adapter("Youdao", app_key, app_secret, 0, generate_random_mac(draw))
AlibabaTranslatorNew == Adapter("Alibaba", <<>>, <<>>, InputLimit, <<>>)
CaiyunTranslatorNew(token, request_id) == Adapter("Caiyun", token, request_id, 0, <<>>)
MyMemoryTranslatorNew == Adapter("MyMemory", <<>>, <<>>, InputLimit, <<>>)

\* local with the keyless provider reported as local
local_if_keyless(a) == a.kind = "MyMemory"

\* AsyncTranslator::local of the five adapters
local(a) ==
    CASE a.kind = "Baidu" -> FALSE
      [] a.kind = "Youdao" -> FALSE
      [] a.kind = "Alibaba" -> FALSE
      [] a.kind = "Caiyun" -> FALSE
      [] a.kind = "MyMemory" -> FALSE

Delimiter == <<"_", ".", "_", ".", "_">>
SlashN == <<"/", "n">>

\* input_limit_checker refusing a text of exactly the limit
input_limit_checker_strict(query, input_limit) ==
    IF ByteLen(query) >= input_limit
    THEN RequestToLong(ByteLen(query), input_limit)
    ELSE NoResult

\* input_limit_checker
input_limit_checker(query, input_limit) ==
    IF ByteLen(query) > input_limit
    THEN RequestToLong(ByteLen(query), input_limit)
    ELSE NoResult

(* ---- Alibaba ---- *)

\* AlibabaTranslator::translate up to send()
AlibabaPre(a, query, from, to, ctx) ==
    IF input_limit_checker(query, a.input_limit) # NoResult
    THEN Fail(input_limit_checker(query, a.input_limit), ctx)
    ELSE IF from # NoLang /\ to_mymemory_short(from) = NoCode
    THEN Fail(UnknownLanguage(from), ctx)
    ELSE IF to_mymemory_short(to) = NoCode
    THEN Fail(UnknownLanguage(to), ctx)
    ELSE Send(Request("GET", IF from = NoLang THEN Auto ELSE to_mymemory_short(from),
                      to_mymemory_short(to), query, <<>>, "omitted", <<>>, 0, <<>>,
                      NoSign), ctx)

\* TextOfValue without the test for null
TextOfValueNoNull(j, to) ==
    LET text == ValueToString(j) IN
    IF Len(text) >= 1 /\ text[1] = QUOTE /\ text[Len(text)] = QUOTE
    THEN TranslationOutput(SubSeq(text, 2, Len(text) - 1), to)
    ELSE TranslationOutput(text, to)

\* The text taken from the translated-text field: null is an error, the
\* enclosing quotes of the JSON text are removed.
TextOfValue(j, to) ==
    LET text == ValueToString(j) IN
    IF text = <<"n", "u", "l", "l">> THEN NoResponse
    ELSE IF Len(text) >= 1 /\ text[1] = QUOTE /\ text[Len(text)] = QUOTE
         THEN TranslationOutput(SubSeq(text, 2, Len(text) - 1), to)
    ELSE TranslationOutput(text, to)

\* AlibabaTranslator::translate from the response on
AlibabaDecode(r, to) ==
    IF r.transport = "fail" THEN ReqwestSend
    ELSE IF ~is_success(r.status) THEN RequestFailed(r.status)
    ELSE IF ~r.json THEN ReqwestDecode
    ELSE TextOfValue(r.text, to)

\* SplitOutput that returns the text of translate as one segment
SplitOutputWhole(t, d) ==
    IF t.kind = "Ok" THEN TranslationListOutput(<<t.text>>, t.lang) ELSE t

\* translate_vec: the Ok of translate, split on the delimiter
SplitOutput(t, d) ==
    IF t.kind = "Ok" THEN TranslationListOutput(Split(t.text, d), t.lang) ELSE t

(* ---- MyMemory ---- *)

MyMemoryPre(a, query, from, to, ctx) ==
    IF input_limit_checker(query, a.input_limit) # NoResult
    THEN Fail(input_limit_checker(query, a.input_limit), ctx)
    ELSE IF from # NoLang /\ to_mymemory(from) = NoCode
    THEN Fail(UnknownLanguage(from), ctx)
    ELSE IF to_mymemory(to) = NoCode
    THEN Fail(UnknownLanguage(to), ctx)
    ELSE Send(Request("GET", IF from = NoLang THEN Autodetect ELSE to_mymemory(from),
                      to_mymemory(to), query, <<>>, "omitted", <<>>, 0, <<>>,
                      NoSign), ctx)

MyMemoryDecode(r, to) ==
    IF r.transport = "fail" THEN ReqwestSend
    ELSE IF ~is_success(r.status) THEN RequestFailed(r.status)
    ELSE IF ~r.json THEN ReqwestDecode
    ELSE TextOfValue(r.text, to)

(* ---- Baidu ---- *)

Salt0 == <<"0">>

\* Form::new signing appid, salt and key only
FormNewSignWithoutQ(appid, q, salt, key, from, to) ==
    Request("form", from, to, q, <<>>, "omitted", salt, 0, appid,
            Digest("md5", appid \o salt \o key))

\* Form::new: sign is the md5 of appid, q, salt and key concatenated
FormNew(appid, q, salt, key, from, to) ==
    Request("form", from, to, q, <<>>, "omitted", salt, 0, appid,
            Digest("md5", appid \o q \o salt \o key))

\* BaiduTranslator::translate up to send()
BaiduPre(a, query, from, to, ctx) ==
    IF to_baidu(to) = NoCode
    THEN Fail(UnknownLanguage(to), ctx)
    ELSE IF from # NoLang /\ to_baidu(from) = NoCode
    THEN Fail(UnknownLanguage(from), ctx)
    ELSE Send(FormNew(a.id, query, Salt0, a.secret,
                      IF from = NoLang THEN Auto ELSE to_baidu(from), to_baidu(to)), ctx)

C(a, b, c, d, e) == <<a, b, c, d, e>>

\* solution with the arm of 58001 left out
solution_without_58001(code) ==
    CASE code = C("5", "2", "0", "0", "0") -> "success"
      [] code = C("5", "2", "0", "0", "1") -> "request timed out"
      [] code = C("5", "2", "0", "0", "2") -> "system error"
      [] code = C("5", "2", "0", "0", "3") -> "unauthorized user"
      [] code = C("5", "4", "0", "0", "0") -> "required parameter is empty"
      [] code = C("5", "4", "0", "0", "1") -> "signature error"
      [] code = C("5", "4", "0", "0", "3") -> "access frequency limited"
      [] code = C("5", "4", "0", "0", "4") -> "insufficient account balance"
      [] code = C("5", "4", "0", "0", "5") -> "long queries too frequent"
      [] code = C("5", "8", "0", "0", "0") -> "client IP illegal"
      [] code = C("5", "8", "0", "0", "2") -> "service is offline"
      [] code = C("5", "8", "0", "0", "3") -> "IP banned for using several appids"
      [] code = C("9", "0", "1", "0", "7") -> "certification not passed or expired"
      [] code = C("2", "0", "0", "0", "3") -> "check the text for forbidden content"
      [] OTHER -> "unknown error"

\* BaiduApiError::solution: the remediation text of an error code (each text is
\* named here by its first sentence, in English)
solution(code) ==
    CASE code = C("5", "2", "0", "0", "0") -> "success"
      [] code = C("5", "2", "0", "0", "1") -> "request timed out"
      [] code = C("5", "2", "0", "0", "2") -> "system error"
      [] code = C("5", "2", "0", "0", "3") -> "unauthorized user"
      [] code = C("5", "4", "0", "0", "0") -> "required parameter is empty"
      [] code = C("5", "4", "0", "0", "1") -> "signature error"
      [] code = C("5", "4", "0", "0", "3") -> "access frequency limited"
      [] code = C("5", "4", "0", "0", "4") -> "insufficient account balance"
      [] code = C("5", "4", "0", "0", "5") -> "long queries too frequent"
      [] code = C("5", "8", "0", "0", "0") -> "client IP illegal"
      [] code = C("5", "8", "0", "0", "1") -> "target language direction not supported"
      [] code = C("5", "8", "0", "0", "2") -> "service is offline"
      [] code = C("5", "8", "0", "0", "3") -> "IP banned for using several appids"
      [] code = C("9", "0", "1", "0", "7") -> "certification not passed or expired"
      [] code = C("2", "0", "0", "0", "3") -> "check the text for forbidden content"
      [] OTHER -> "unknown error"

\* Response with the error shape tried first
ResponseShapeErrFirst(r) ==
    IF r.error_code.t = "str" /\ r.error_msg.t = "str" THEN "Err"
    ELSE IF r.to.t = "str" /\ r.trans_result.t = "list" THEN "Ok"
    ELSE "none"

\* The untagged enum Response: the success shape is tried first, then the
\* error shape; "none" when the body has neither.
ResponseShape(r) ==
    IF r.to.t = "str" /\ r.trans_result.t = "list" THEN "Ok"
    ELSE IF r.error_code.t = "str" /\ r.error_msg.t = "str" THEN "Err"
    ELSE "none"

\* BaiduDecode with the provider's message put where its code belongs
BaiduDecodeMsgAsCode(r, to) ==
    IF r.transport = "fail" THEN ReqwestSend
    ELSE IF ~r.json THEN ReqwestDecode
    ELSE IF ResponseShape(r) = "none" THEN ReqwestDecode
    ELSE IF ResponseShape(r) = "Err"
         THEN ApiErrorBaidu(r.error_msg.v, solution(r.error_code.v))
    ELSE IF from_baidu(r.to.v) = NoLang THEN CouldNotMapLanguage(r.to.v)
    ELSE TranslationOutput(Join(r.trans_result.v, <<LF>>), from_baidu(r.to.v))

\* BaiduDecode answering in the requested language when the provider's
\* target code is not recognised
BaiduDecodeRequestedLang(r, to) ==
    IF r.transport = "fail" THEN ReqwestSend
    ELSE IF ~r.json THEN ReqwestDecode
    ELSE IF ResponseShape(r) = "none" THEN ReqwestDecode
    ELSE IF ResponseShape(r) = "Err" THEN ApiErrorBaidu(r.error_code.v, solution(r.error_code.v))
    ELSE IF from_baidu(r.to.v) = NoLang THEN TranslationOutput(Join(r.trans_result.v, <<LF>>), to)
    ELSE TranslationOutput(Join(r.trans_result.v, <<LF>>), from_baidu(r.to.v))

\* BaiduTranslator::translate from the response on
BaiduDecode(r, to) ==
    IF r.transport = "fail" THEN ReqwestSend
    ELSE IF ~r.json THEN ReqwestDecode
    ELSE IF ResponseShape(r) = "none" THEN ReqwestDecode
    ELSE IF ResponseShape(r) = "Err"
         THEN ApiErrorBaidu(r.error_code.v, solution(r.error_code.v))
    ELSE IF from_baidu(r.to.v) = NoLang THEN CouldNotMapLanguage(r.to.v)
    ELSE TranslationOutput(Join(r.trans_result.v, <<LF>>), from_baidu(r.to.v))

(* ---- Caiyun ---- *)

\* CaiyunPre with an unmappable source language treated as no source language
CaiyunPreAutoFallback(a, query, from, to, ctx) ==
    IF to_caiyun(to) = NoCode
    THEN Fail(UnknownLanguage(to), ctx)
    ELSE Send(Request("json",
                      (IF from = NoLang \/ to_caiyun(from) = NoCode
                       THEN Auto ELSE to_caiyun(from)) \o <<"2">> \o to_caiyun(to),
                      <<>>, <<>>, query,
                      IF from = NoLang \/ to_caiyun(from) = NoCode THEN "true" ELSE "omitted",
                      <<>>, 0, a.secret, NoSign), ctx)

\* CaiyunPre asking for detection in every request
CaiyunPreDetectAlways(a, query, from, to, ctx) ==
    IF from # NoLang /\ to_caiyun(from) = NoCode
    THEN Fail(UnknownLanguage(from), ctx)
    ELSE IF to_caiyun(to) = NoCode
    THEN Fail(UnknownLanguage(to), ctx)
    ELSE Send(Request("json",
                      (IF from = NoLang THEN Auto ELSE to_caiyun(from)) \o <<"2">>
                          \o to_caiyun(to),
                      <<>>, <<>>, query, "true",
                      <<>>, 0, a.secret, NoSign), ctx)

\* CaiyunTranslator::translate_vec up to send()
CaiyunPre(a, query, from, to, ctx) ==
    IF from # NoLang /\ to_caiyun(from) = NoCode
    THEN Fail(UnknownLanguage(from), ctx)
    ELSE IF to_caiyun(to) = NoCode
    THEN Fail(UnknownLanguage(to), ctx)
    ELSE Send(Request("json",
                      (IF from = NoLang THEN Auto ELSE to_caiyun(from)) \o <<"2">>
                          \o to_caiyun(to),
                      <<>>, <<>>, query, IF from = NoLang THEN "true" ELSE "omitted",
                      <<>>, 0, a.secret, NoSign), ctx)

\* CaiyunTranslator::translate_vec from the response on.  target is an
\* Option<Vec<String>>: absent and null both decode to None.
CaiyunDecodeVec(r) ==
    IF r.transport = "fail" THEN ReqwestSend
    ELSE IF ~r.json THEN ReqwestDecode
    ELSE IF r.target.t = "list" THEN TranslationListOutput(r.target.v, NoLang)
    ELSE IF r.target.t \in {"absent", "null"} THEN TranslationListOutput(<<>>, NoLang)
    ELSE ReqwestDecode

\* translate of Caiyun and of Youdao: text.remove(0) of the translate_vec
\* result; Vec::remove panics on an empty vector.
FirstOf(v, to) ==
    IF v.kind # "OkList" THEN v
    ELSE IF v.list = <<>> THEN Panic
    ELSE TranslationOutput(v.list[1], to)

(* ---- Youdao ---- *)

\* fetch_add on the Context's u16 counter
U16 == 65536
ContextNext(count) == (count + 1) % U16
\* sha256_encode: the hex digest of the bytes of sign_str
sha256_encode(sign_str) == Digest("sha256", sign_str)

\* sign_str over the whole query
sign_str_untruncated(app_key, q, salt, curtime, app_secret) ==
    [kind |-> truncate(q).kind,
     text |-> IF truncate(q).kind = "Panic" THEN <<>>
              ELSE app_key \o q \o salt \o Dec(curtime) \o app_secret]

\* The string translate_vec signs: app key, truncate(query), salt, curtime and
\* app secret; a panic when truncate panics
sign_str(app_key, q, salt, curtime, app_secret) ==
    LET t == truncate(q)
    IN  [kind |-> t.kind,
         text |-> IF t.kind = "Panic" THEN <<>>
                  ELSE app_key \o t.text \o salt \o Dec(curtime) \o app_secret]

\* YoudaoPre with the target language looked up after the request has gone
YoudaoPreSendFirst(a, query, from, to, ctx, secs) ==
    LET salt == UuidV1(secs, ctx, a.mac)
        q == Join(query, <<LF>>)
        signed == sign_str(a.id, q, salt, secs, a.secret)
        request == Request("form", IF from = NoLang THEN Auto ELSE to_youdao(from),
                           to_youdao(to), q, <<>>, "omitted", salt, secs, a.id,
                           sha256_encode(signed.text))
    IN  IF signed.kind = "Panic" THEN Fail(Panic, ContextNext(ctx))
        ELSE IF from # NoLang /\ to_youdao(from) = NoCode
        THEN Fail(UnknownLanguage(from), ContextNext(ctx))
        ELSE IF to_youdao(to) = NoCode
        THEN Pre(UnknownLanguage(to), request, 1, ContextNext(ctx))
        ELSE Send(request, ContextNext(ctx))

\* YoudaoTranslator::translate_vec up to send(); secs is the clock reading.
\* The nonce is made, and the Context counter advanced, before anything is
\* validated; truncate may panic.
YoudaoPre(a, query, from, to, ctx, secs) ==
    LET salt == UuidV1(secs, ctx, a.mac)
        q == Join(query, <<LF>>)
        signed == sign_str(a.id, q, salt, secs, a.secret)
    IN  IF signed.kind = "Panic" THEN Fail(Panic, ContextNext(ctx))
        ELSE IF from # NoLang /\ to_youdao(from) = NoCode
        THEN Fail(UnknownLanguage(from), ContextNext(ctx))
        ELSE IF to_youdao(to) = NoCode
        THEN Fail(UnknownLanguage(to), ContextNext(ctx))
        ELSE Send(Request("form", IF from = NoLang THEN Auto ELSE to_youdao(from),
                          to_youdao(to), q, <<>>, "omitted", salt, secs, a.id,
                          sha256_encode(signed.text)), ContextNext(ctx))

RECURSIVE FlatSplit(_, _)
FlatSplit(l, d) == IF l = <<>> THEN <<>> ELSE Split(Head(l), d) \o FlatSplit(Tail(l), d)

\* YoudaoTranslator::translate_vec from the response on
YoudaoDecodeVec(r) ==
    IF r.transport = "fail" THEN ReqwestSend
    ELSE IF ~r.json THEN ReqwestDecode
    ELSE IF r.translation.t = "list"
         THEN TranslationListOutput(FlatSplit(r.translation.v, SlashN), NoLang)
    ELSE ReqwestDecode

----------------------------------------------------------------------------
(* The factory *)

\* char::to_lowercase for the characters of the model
LowerChar(c) ==
    CASE c = "A" -> "a" [] c = "B" -> "b" [] c = "C" -> "c" [] c = "D" -> "d"
      [] c = "E" -> "e" [] c = "F" -> "f" [] c = "G" -> "g" [] c = "H" -> "h"
      [] c = "I" -> "i" [] c = "J" -> "j" [] c = "K" -> "k" [] c = "L" -> "l"
      [] c = "M" -> "m" [] c = "N" -> "n" [] c = "O" -> "o" [] c = "P" -> "p"
      [] c = "Q" -> "q" [] c = "R" -> "r" [] c = "S" -> "s" [] c = "T" -> "t"
      [] c = "U" -> "u" [] c = "V" -> "v" [] c = "W" -> "w" [] c = "X" -> "x"
      [] c = "Y" -> "y" [] c = "Z" -> "z" [] OTHER -> c

\* The identifier matched as it was given
to_lowercase_skipped(s) == s

to_lowercase(s) == [i \in 1..Len(s) |-> LowerChar(s[i])]

\* TranslatorType::from_str with a provider in place of Err(())
from_str_default(s) ==
    LET l == to_lowercase(s) IN
    CASE l = <<"y", "o", "u", "d", "a", "o">> -> "Youdao"
      [] l = <<"a", "l", "i", "b", "a", "b", "a">> \/ l = <<"a", "l", "i">> -> "Alibaba"
      [] l = <<"c", "a", "i", "y", "u", "n">> \/ l = <<"U+5F69", "U+4E91">> -> "Caiyun"
      [] l = <<"m", "y", "m", "e", "m", "o", "r", "y">>
           \/ l = <<"m", "y", "-", "m", "e", "m", "o", "r", "y">>
           \/ l = <<"m", "y", " ", "m", "e", "m", "o", "r", "y">> -> "MyMemory"
      [] OTHER -> "Baidu"

\* TranslatorType::from_str: the type, or "Err"
from_str(s) ==
    LET l == to_lowercase(s) IN
    CASE l = <<"b", "a", "i", "d", "u">> -> "Baidu"
      [] l = <<"y", "o", "u", "d", "a", "o">> -> "Youdao"
      [] l = <<"a", "l", "i", "b", "a", "b", "a">> \/ l = <<"a", "l", "i">> -> "Alibaba"
      [] l = <<"c", "a", "i", "y", "u", "n">> \/ l = <<"U+5F69", "U+4E91">> -> "Caiyun"
      [] l = <<"m", "y", "m", "e", "m", "o", "r", "y">>
           \/ l = <<"m", "y", "-", "m", "e", "m", "o", "r", "y">>
           \/ l = <<"m", "y", " ", "m", "e", "m", "o", "r", "y">> -> "MyMemory"
      [] OTHER -> "Err"

\* TranslatorType::parse: from_str(s).ok()
parse(s) == IF from_str(s) = "Err" THEN "None" ELSE from_str(s)

\* What a factory function returned: Ok with the adapter, or Err with the
\* message (create and create_from_type return the adapter itself).
Made(via, ok, a, err) == [via |-> via, ok |-> ok, adapter |-> a, err |-> err]
NotMade == Made("none", FALSE, NoAdapter, "")

\* TranslatorFactory::create; config.kind is the variant of TranslatorConfig,
\* a and b its strings.  draw is the random draw of YoudaoTranslator::new.
create(config, draw) ==
    Made("create", TRUE,
         CASE config.kind = "Baidu" -> BaiduTranslatorNew(config.a, config.b)
           [] config.kind = "Youdao" -> YoudaoTranslatorNew(config.a, config.b, draw)
           [] config.kind = "Alibaba" -> AlibabaTranslatorNew
           [] config.kind = "Caiyun" -> CaiyunTranslatorNew(config.a, config.b)
           [] config.kind = "MyMemory" -> MyMemoryTranslatorNew,
         "")

\* TranslatorFactory::create_from_type
create_from_type(translator_type, app_id, secret, draw) ==
    Made("create_from_type", TRUE,
         CASE translator_type = "Baidu" -> BaiduTranslatorNew(app_id, secret)
           [] translator_type = "Youdao" -> YoudaoTranslatorNew(app_id, secret, draw)
           [] translator_type = "Alibaba" -> AlibabaTranslatorNew
           [] translator_type = "Caiyun" -> CaiyunTranslatorNew(app_id, secret)
           [] translator_type = "MyMemory" -> MyMemoryTranslatorNew,
         "")

\* std::env::var: Unset stands for the Err of a variable that is not set
Unset == <<"?unset">>
EnvVars ==
    {"BAIDU_APP_ID", "BAIDU_KEY", "YOUDAO_APP_KEY", "YOUDAO_APP_SECRET",
     "CAIYUN_TOKEN", "CAIYUN_REQUEST_ID"}

FromEnvErr(name) == Made("create_from_env", FALSE, NoAdapter, name)
FromEnvOk(a) == Made("create_from_env", TRUE, a, "")

\* TranslatorFactory::create_from_env; e is the environment
create_from_env(translator_type, e, draw) ==
    CASE translator_type = "Baidu" ->
           IF e["BAIDU_APP_ID"] = Unset THEN FromEnvErr("BAIDU_APP_ID")
           ELSE IF e["BAIDU_KEY"] = Unset THEN FromEnvErr("BAIDU_KEY")
           ELSE FromEnvOk(BaiduTranslatorNew(e["BAIDU_APP_ID"], e["BAIDU_KEY"]))
      [] translator_type = "Youdao" ->
           IF e["YOUDAO_APP_KEY"] = Unset THEN FromEnvErr("YOUDAO_APP_KEY")
           ELSE IF e["YOUDAO_APP_SECRET"] = Unset THEN FromEnvErr("YOUDAO_APP_SECRET")
           ELSE FromEnvOk(YoudaoTranslatorNew(e["YOUDAO_APP_KEY"], e["YOUDAO_APP_SECRET"],
                                              draw))
      [] translator_type = "Alibaba" -> FromEnvOk(AlibabaTranslatorNew)
      [] translator_type = "Caiyun" ->
           IF e["CAIYUN_TOKEN"] = Unset THEN FromEnvErr("CAIYUN_TOKEN")
           ELSE FromEnvOk(CaiyunTranslatorNew(
                    e["CAIYUN_TOKEN"],
                    IF e["CAIYUN_REQUEST_ID"] = Unset THEN Demo ELSE e["CAIYUN_REQUEST_ID"]))
      [] translator_type = "MyMemory" -> FromEnvOk(MyMemoryTranslatorNew)

----------------------------------------------------------------------------
(* The two operations of AsyncTranslator, each in two steps: up to send()   *)
(* and, when a request was sent, from the response on.                      *)

Call(op, query, from, to) == [op |-> op, query |-> query, from |-> from, to |-> to]
NoCall == Call("none", <<>>, NoLang, NoLang)

\* translate, up to send()
TranslatePre(a, query, from, to, ctx, secs) ==
    CASE a.kind = "Alibaba" -> AlibabaPre(a, query, from, to, ctx)
      [] a.kind = "MyMemory" -> MyMemoryPre(a, query, from, to, ctx)
      [] a.kind = "Baidu" -> BaiduPre(a, query, from, to, ctx)
      [] a.kind = "Caiyun" -> CaiyunPre(a, <<query>>, from, to, ctx)
      [] a.kind = "Youdao" -> YoudaoPre(a, <<query>>, from, to, ctx, secs)

\* translate_vec, up to send()
TranslateVecPre(a, query, from, to, ctx, secs) ==
    CASE a.kind = "Alibaba" -> AlibabaPre(a, Join(query, Delimiter), from, to, ctx)
      [] a.kind = "MyMemory" -> MyMemoryPre(a, Join(query, Delimiter), from, to, ctx)
      [] a.kind = "Baidu" -> BaiduPre(a, Join(query, <<LF>>), from, to, ctx)
      [] a.kind = "Caiyun" -> CaiyunPre(a, query, from, to, ctx)
      [] a.kind = "Youdao" -> YoudaoPre(a, query, from, to, ctx, secs)

\* translate, from the response on
TranslatePost(a, to, r) ==
    CASE a.kind = "Alibaba" -> AlibabaDecode(r, to)
      [] a.kind = "MyMemory" -> MyMemoryDecode(r, to)
      [] a.kind = "Baidu" -> BaiduDecode(r, to)
      [] a.kind = "Caiyun" -> FirstOf(CaiyunDecodeVec(r), to)
      [] a.kind = "Youdao" -> FirstOf(YoudaoDecodeVec(r), to)

\* translate_vec, from the response on
TranslateVecPost(a, to, r) ==
    CASE a.kind = "Alibaba" -> SplitOutput(AlibabaDecode(r, to), Delimiter)
      [] a.kind = "MyMemory" -> SplitOutput(MyMemoryDecode(r, to), Delimiter)
      [] a.kind = "Baidu" -> SplitOutput(BaiduDecode(r, to), <<LF>>)
      [] a.kind = "Caiyun" -> CaiyunDecodeVec(r)
      [] a.kind = "Youdao" -> YoudaoDecodeVec(r)

----------------------------------------------------------------------------
(* Inputs *)

MaxSeq == 2      \* calls on a Youdao instance stop when its counter gets here
MaxClock == 1    \* clock readings 0..MaxClock
MaxSeed == 1     \* seeds of the uuid Context 0..MaxSeed

TA == <<"a">>
TB == <<"b">>
TC == <<"c">>
TX == <<"x">>
TY == <<"y">>
Ni3 == Rep("U+4F60", 3)
Ni7 == Rep("U+4F60", 7)

\* The languages the calls are made with (English behaves as Chinese does)
CallLanguages == {"Chinese", "ClassicalChinese", "Otomi"}

LimitTexts ==
    {Rep("a", InputLimit), Rep("a", InputLimit + 1),
     Rep("U+4F60", (InputLimit \div 3) + 1)}
LimitLists == {<<Rep("a", InputLimit), TB>>}

\* The texts around the input limit are given to the adapters that have one.
Texts(kind) ==
    {<<>>, TA, <<"a", LF, "b">>, TA \o Delimiter \o TB, Rep("a", TruncateMax + 1),
     Ni3, Ni7}
    \cup (IF kind \in {"Alibaba", "MyMemory"} THEN LimitTexts ELSE {})

QueryLists(kind) ==
    {<<>>, <<TA>>, <<TA, TB>>, <<TA, TB, TC>>, <<Ni7, TA>>}
    \cup (IF kind \in {"Alibaba", "MyMemory"} THEN LimitLists ELSE {})

AppId == <<"i", "d">>
Key == <<"k", "e", "y">>
MacDraws == {<<0, 0, 0, 0, 0, 0>>, <<255, 1, 2, 3, 4, 5>>}

BuiltAdapters ==
    {BaiduTranslatorNew(AppId, Key), AlibabaTranslatorNew, MyMemoryTranslatorNew,
     CaiyunTranslatorNew(Key, Demo)}
    \cup {YoudaoTranslatorNew(AppId, Key, d) : d \in MacDraws}
    \cup {BaiduTranslatorNew(<<>>, <<>>), CaiyunTranslatorNew(<<>>, <<>>)}

Statuses == {200, 299, 300, 500}

Null4 == <<"n", "u", "l", "l">>
TextValues ==
    {JAbsent, JNull, JStr(<<>>), JStr(TX), JStr(Null4), JStr(TX \o Delimiter \o TY),
     JStr(TX \o Delimiter \o TY \o Delimiter \o TA), JStr(<<"x", QUOTE, "y">>),
     JStr(<<BACKSLASH, LF>>), JNum(<<"4", "2">>), JList(<<>>)}

Body(json, text, to, trans_result, error_code, error_msg, target, translation) ==
    [json |-> json, text |-> text, to |-> to, trans_result |-> trans_result,
     error_code |-> error_code, error_msg |-> error_msg, target |-> target,
     translation |-> translation]

NotJson == Body(FALSE, JAbsent, JAbsent, JAbsent, JAbsent, JAbsent, JAbsent, JAbsent)

ErrorFields ==
    {<<JAbsent, JAbsent>>,
     <<JStr(C("5", "4", "0", "0", "1")), JStr(<<"m">>)>>,
     <<JStr(C("7", "7", "7", "7", "7")), JStr(<<"m">>)>>,
     <<JStr(C("5", "2", "0", "0", "3")), JAbsent>>,
     <<JNum(C("5", "4", "0", "0", "1")), JStr(<<"m">>)>>}

Bodies(kind) ==
    {NotJson} \cup
    CASE kind \in {"Alibaba", "MyMemory"} ->
           {Body(TRUE, t, JAbsent, JAbsent, JAbsent, JAbsent, JAbsent, JAbsent) :
                t \in TextValues}
      [] kind = "Baidu" ->
           {Body(TRUE, JAbsent, to, tr, e[1], e[2], JAbsent, JAbsent) :
                to \in {JAbsent, JStr(<<"e", "n">>), JStr(<<"z", "z">>)},
                tr \in {JAbsent, JList(<<>>), JList(<<TX>>), JList(<<TX, TY>>)},
                e \in ErrorFields}
      [] kind = "Caiyun" ->
           {Body(TRUE, JAbsent, JAbsent, JAbsent, JAbsent, JAbsent, t, JAbsent) :
                t \in {JAbsent, JNull, JStr(TX), JList(<<>>), JList(<<TX>>),
                       JList(<<TX, TY>>), JList(<<TX, TY, TA>>)}}
      [] kind = "Youdao" ->
           {Body(TRUE, JAbsent, JAbsent, JAbsent, JAbsent, JAbsent, JAbsent, t) :
                t \in {JAbsent, JNull, JList(<<>>), JList(<<TX>>), JList(<<TX, TY>>),
                       JList(<<TX \o SlashN \o TY>>), JList(<<TX \o <<LF>> \o TY>>)}}

Delivered(status, b) ==
    Response("ok", status, b.json, b.text, b.to, b.trans_result, b.error_code,
             b.error_msg, b.target, b.translation)

TransportFailure ==
    Response("fail", 0, FALSE, JAbsent, JAbsent, JAbsent, JAbsent, JAbsent, JAbsent, JAbsent)

Responses(kind) ==
    {TransportFailure} \cup {Delivered(st, b) : st \in Statuses, b \in Bodies(kind)}

Clock(kind) == IF kind = "Youdao" THEN 0..MaxClock ELSE {0}

----------------------------------------------------------------------------
(* The adapter's state machine *)

NoEnv == [n \in EnvVars |-> Unset]

FactoryIdle ==
    /\ env = NoEnv
    /\ ident = <<>>
    /\ ttype = "Unparsed"
    /\ made = NotMade

TruncIdle ==
    /\ tin = <<>>
    /\ tout = [kind |-> "None", text |-> <<>>]

\* No pure function has been called
NoReturn == [kind |-> "None"]
PureIdle ==
    /\ fname = "none"
    /\ fargs = <<>>
    /\ fret = NoReturn

Init ==
    /\ adapter \in BuiltAdapters
    /\ context \in (IF adapter.kind = "Youdao" THEN 0..MaxSeed ELSE {0})
    /\ pc = "idle"
    /\ call = NoCall
    /\ req = NoRequest
    /\ resp = NoResponseYet
    /\ sent = 0
    /\ result = NoResult
    /\ FactoryIdle
    /\ TruncIdle
    /\ PureIdle

Started(c, pre) ==
    /\ call' = c
    /\ context' = pre.ctx
    /\ req' = pre.req
    /\ sent' = pre.sends
    /\ resp' = NoResponseYet
    /\ result' = pre.err
    /\ pc' = IF pre.err = NoResult THEN "sent" ELSE "done"
    /\ UNCHANGED <<adapter, env, ident, ttype, made, tin, tout, pureVars>>

Translate ==
    /\ pc = "idle"
    /\ context < MaxSeq
    /\ \E query \in Texts(adapter.kind), from \in CallLanguages \cup {NoLang},
          to \in CallLanguages,
          secs \in Clock(adapter.kind) :
          Started(Call("translate", <<query>>, from, to),
                  TranslatePre(adapter, query, from, to, context, secs))

TranslateVec ==
    /\ pc = "idle"
    /\ context < MaxSeq
    /\ \E query \in QueryLists(adapter.kind), from \in CallLanguages \cup {NoLang},
          to \in CallLanguages,
          secs \in Clock(adapter.kind) :
          Started(Call("translate_vec", query, from, to),
                  TranslateVecPre(adapter, query, from, to, context, secs))

\* Requests sent again after a failed first one
ResendsOnFailure(kind, r) ==
    IF r.transport = "fail" \/ ~r.json \/ ~is_success(r.status) THEN 1 ELSE 0

\* Requests a call sends after the response r to its first one: the code of
\* every adapter goes from the response to its return value without a loop
Resends(kind, r) == 0

Respond ==
    /\ pc = "sent"
    /\ \E r \in Responses(adapter.kind) :
          /\ resp' = r
          /\ sent' = sent + Resends(adapter.kind, r)
          /\ result' = IF call.op = "translate"
                       THEN TranslatePost(adapter, call.to, r)
                       ELSE TranslateVecPost(adapter, call.to, r)
    /\ pc' = "done"
    /\ UNCHANGED <<adapter, context, call, req, env, ident, ttype, made, tin, tout, pureVars>>

Return ==
    /\ pc = "done"
    /\ pc' = "idle"
    /\ call' = NoCall
    /\ req' = NoRequest
    /\ resp' = NoResponseYet
    /\ sent' = 0
    /\ result' = NoResult
    /\ UNCHANGED <<adapter, context, env, ident, ttype, made, tin, tout, pureVars>>

Next == Translate \/ TranslateVec \/ Respond \/ Return

Spec == Init /\ [][Next]_vars

----------------------------------------------------------------------------
(* Properties of the adapters *)

Done == pc = "done"
GotResponse == Done /\ resp.transport = "ok"
HasLimit(kind) == kind \in {"Alibaba", "MyMemory"}

\* The wire code of a language for the adapter's provider
WireCode(kind, l) ==
    CASE kind = "Baidu" -> to_baidu(l)
      [] kind = "Youdao" -> to_youdao(l)
      [] kind = "Caiyun" -> to_caiyun(l)
      [] kind = "MyMemory" -> to_mymemory(l)
      [] kind = "Alibaba" -> to_mymemory_short(l)

Unmappable(l) == l # NoLang /\ WireCode(adapter.kind, l) = NoCode

\* The text the call puts on the wire
CallText ==
    CASE adapter.kind \in {"Alibaba", "MyMemory"} -> Join(call.query, Delimiter)
      [] OTHER -> Join(call.query, <<LF>>)

OverLimit == HasLimit(adapter.kind) /\ ByteLen(CallText) > InputLimit

\* C1: translate_vec of N >= 1 inputs that returns a list returns N strings.
C1_CountPreserved ==
    (Done /\ call.op = "translate_vec" /\ call.query # <<>> /\ result.kind = "OkList")
        => Len(result.list) = Len(call.query)

\* C2: in Alibaba and MyMemory a success status with a JSON body whose
\* translated-text field is null or absent gives the error NoResponse.
C2_NullIsNoResponse ==
    (GotResponse /\ HasLimit(adapter.kind) /\ is_success(resp.status) /\ resp.json
         /\ resp.text.t \in {"null", "absent"})
        => result = NoResponse

C2_Witness ==
    /\ GotResponse /\ adapter.kind = "MyMemory" /\ call.op = "translate"
    /\ is_success(resp.status) /\ resp.json /\ resp.text.t = "null"
    /\ result = NoResponse

\* A body of the error shape: error_code and error_msg are strings and the
\* success fields are not both there.
ErrorPayload ==
    /\ resp.json /\ resp.error_code.t = "str" /\ resp.error_msg.t = "str"
    /\ ~(resp.to.t = "str" /\ resp.trans_result.t = "list")

\* C3: a Baidu error payload gives ApiError with the provider's code and the
\* remediation text of that code (the generic text for a code not in the
\* table), never a success.
C3_ProviderRejected ==
    (GotResponse /\ adapter.kind = "Baidu" /\ ErrorPayload)
        => /\ result.kind = "Err" /\ result.tag = "ApiError"
           /\ result.estr = resp.error_code.v
           /\ (result.estr = C("5", "4", "0", "0", "1") => result.emsg = "signature error")
           /\ (result.estr = C("7", "7", "7", "7", "7") => result.emsg = "unknown error")

C3_Witness ==
    /\ GotResponse /\ adapter.kind = "Baidu" /\ ErrorPayload
    /\ resp.error_code.v = C("7", "7", "7", "7", "7")
    /\ result.tag = "ApiError" /\ result.emsg = "unknown error"

\* C4: translate, given a response, returns an output or an error value; it
\* does not abort.
C4_TranslateReturns ==
    (GotResponse /\ call.op = "translate") => result.kind \in {"Ok", "Err"}

\* C5 as stated: an unmappable source language gives UnknownLanguage carrying
\* that language, an unmappable target language UnknownLanguage carrying it.
\* (Stated of the calls that return: the abort of truncate is another matter.)
C5_UnknownLanguageCarriesIt ==
    (Done /\ result.kind # "Panic")
        => /\ (Unmappable(call.from) => result = UnknownLanguage(call.from))
           /\ (Unmappable(call.to) => result = UnknownLanguage(call.to))

\* A request asks the provider to detect the source language
AsksAutoDetect(r) ==
    \/ r.from \in {Auto, Autodetect}
    \/ r.detect = "true"
    \/ (Len(r.from) >= Len(Auto) /\ SubSeq(r.from, 1, Len(Auto)) = Auto)

\* The Youdao call aborts in truncate before it validates anything
AbortsInTruncate ==
    adapter.kind = "Youdao" /\ truncate(CallText).kind = "Panic"

\* The language the adapter finds unmappable first: Baidu checks the target
\* first, the others the source.
FirstUnmappable ==
    IF adapter.kind = "Baidu"
    THEN (IF Unmappable(call.to) THEN call.to ELSE call.from)
    ELSE (IF Unmappable(call.from) THEN call.from ELSE call.to)

\* C5 amended: a request asks for auto-detect only when the call has no
\* source language; a call with an unmappable source or target language sends
\* nothing and returns no output: it returns RequestToLong when the text is
\* over the adapter's limit, otherwise UnknownLanguage carrying the first
\* unmappable language in the adapter's order of checks, except that Youdao
\* aborts when truncate does.
C5_HardError ==
    /\ (sent > 0 => (AsksAutoDetect(req) <=> call.from = NoLang))
    /\ (pc # "idle" /\ (Unmappable(call.from) \/ Unmappable(call.to)))
           => /\ Done /\ sent = 0
              /\ result = IF OverLimit THEN RequestToLong(ByteLen(CallText), InputLimit)
                          ELSE IF AbortsInTruncate THEN Panic
                          ELSE UnknownLanguage(FirstUnmappable)

C5_Witness ==
    /\ Done /\ adapter.kind = "Caiyun" /\ Unmappable(call.from) /\ ~Unmappable(call.to)
    /\ result = UnknownLanguage(call.from) /\ sent = 0

\* C6: a call that fails local validation (over-limit text, unmappable source
\* or target language) has sent no request, and a validation error is
\* returned only by a call that sent none.
C6_ValidationBeforeNetwork ==
    /\ (pc # "idle" /\ (OverLimit \/ Unmappable(call.from) \/ Unmappable(call.to)))
           => (sent = 0 /\ req = NoRequest /\ Done)
    /\ (Done /\ result.tag \in {"RequestToLong", "UnknownLanguage"}) => sent = 0

C6_Witness ==
    /\ Done /\ adapter.kind = "Youdao" /\ call.op = "translate_vec"
    /\ ~Unmappable(call.from) /\ Unmappable(call.to)
    /\ result = UnknownLanguage(call.to) /\ sent = 0

\* C7: a response with a non-success status is reported as a transport
\* failure: RequestFailed with the status, or a reqwest error.  (Stated of the
\* calls that return.)
C7_NonSuccessIsTransportFailure ==
    (GotResponse /\ ~is_success(resp.status) /\ result.kind # "Panic")
        => \/ result = RequestFailed(resp.status)
           \/ (result.kind = "Err" /\ result.tag \in {"ReqwestSend", "ReqwestDecode"})

----------------------------------------------------------------------------
(* The factory's state machine: an identifier is parsed, and an adapter is  *)
(* made from the type it names, or from a TranslatorConfig.                 *)

Chars(a, b, c, d, e) == <<a, b, c, d, e>>

\* Identifiers that name a provider, with the provider
KnownIdents ==
    {<<Chars("b", "a", "i", "d", "u"), "Baidu">>,
     <<Chars("B", "a", "i", "d", "u"), "Baidu">>,
     <<Chars("B", "A", "I", "D", "U"), "Baidu">>,
     <<<<"y", "o", "u", "d", "a", "o">>, "Youdao">>,
     <<<<"Y", "o", "u", "D", "a", "o">>, "Youdao">>,
     <<<<"a", "l", "i", "b", "a", "b", "a">>, "Alibaba">>,
     <<<<"a", "l", "i">>, "Alibaba">>,
     <<<<"A", "L", "I">>, "Alibaba">>,
     <<<<"c", "a", "i", "y", "u", "n">>, "Caiyun">>,
     <<<<"U+5F69", "U+4E91">>, "Caiyun">>,
     <<<<"m", "y", "m", "e", "m", "o", "r", "y">>, "MyMemory">>,
     <<<<"M", "y", "M", "e", "m", "o", "r", "y">>, "MyMemory">>,
     <<<<"m", "y", "-", "m", "e", "m", "o", "r", "y">>, "MyMemory">>,
     <<<<"M", "y", " ", "M", "e", "m", "o", "r", "y">>, "MyMemory">>}

\* Identifiers that are no provider's name or alias
UnknownIdents ==
    {<<>>, <<"u", "n", "k", "n", "o", "w", "n">>, <<"g", "o", "o", "g", "l", "e">>,
     <<"b", "a", "i", "d", "u", " ">>, <<"b", "a", "i", " ", "d", "u">>,
     <<"a", "l", "i", "b", "a", "b">>, <<"m", "y", "_", "m", "e", "m", "o", "r", "y">>,
     <<"U+5F69">>, <<"c", "a", "i", "-", "y", "u", "n">>, <<"y", "o", "u", "d", "a", "0">>}

Idents == {k[1] : k \in KnownIdents} \cup UnknownIdents

\* A credential: the empty string (none given) or a value
CredValues == {<<>>, Key}
EnvValues == {Unset} \cup CredValues
Envs == [EnvVars -> EnvValues]
Configs == [kind : Providers, a : CredValues, b : CredValues]

InitFactory ==
    /\ adapter = NoAdapter
    /\ context = 0
    /\ pc = "idle"
    /\ call = NoCall
    /\ req = NoRequest
    /\ resp = NoResponseYet
    /\ sent = 0
    /\ result = NoResult
    /\ FactoryIdle
    /\ TruncIdle
    /\ PureIdle

\* One use of the factory at a time: parse, then at most one adapter made.
Parse ==
    /\ ttype = "Unparsed" /\ made = NotMade
    /\ \E s \in Idents :
          /\ ident' = s
          /\ ttype' = parse(s)
    /\ UNCHANGED <<env, made, adapterVars, truncVars, pureVars>>

Create ==
    /\ ttype = "Unparsed" /\ made = NotMade
    /\ \E config \in Configs, draw \in MacDraws : made' = create(config, draw)
    /\ UNCHANGED <<env, ident, ttype, adapterVars, truncVars, pureVars>>

CreateFromType ==
    /\ ttype \in Providers /\ made = NotMade
    /\ \E app_id \in CredValues, secret \in CredValues, draw \in MacDraws :
          made' = create_from_type(ttype, app_id, secret, draw)
    /\ UNCHANGED <<env, ident, ttype, adapterVars, truncVars, pureVars>>

CreateFromEnv ==
    /\ ttype \in Providers /\ made = NotMade
    /\ \E e \in Envs, draw \in MacDraws :
          /\ env' = e
          /\ made' = create_from_env(ttype, e, draw)
    /\ UNCHANGED <<ident, ttype, adapterVars, truncVars, pureVars>>

\* The caller is done with what it got
Drop ==
    /\ ttype # "Unparsed" \/ made # NotMade
    /\ env' = NoEnv
    /\ ident' = <<>>
    /\ ttype' = "Unparsed"
    /\ made' = NotMade
    /\ UNCHANGED <<adapterVars, truncVars, pureVars>>

NextFactory == Parse \/ Create \/ CreateFromType \/ CreateFromEnv \/ Drop

SpecFactory == InitFactory /\ [][NextFactory]_vars

Parsed == ttype # "Unparsed"

\* C8: an identifier that is no provider's name or alias parses to None, no
\* adapter is made from it, and nothing is sent.
C8_UnrecognizedProvider ==
    (Parsed /\ ident \in UnknownIdents)
        => (ttype = "None" /\ made = NotMade /\ sent = 0 /\ req = NoRequest)

C8_Witness ==
    /\ Parsed /\ ident = <<"b", "a", "i", "d", "u", " ">> /\ ttype = "None"
    /\ made = NotMade

\* The credentials a provider requires are there: none is the empty string
CredentialsPresent(a) ==
    CASE a.kind \in {"Baidu", "Youdao"} -> a.id # <<>> /\ a.secret # <<>>
      [] a.kind = "Caiyun" -> a.id # <<>>
      [] OTHER -> TRUE

\* C9: no factory function returns an adapter of Baidu, Youdao or Caiyun that
\* lacks a required credential.
C9_MissingCredentialFails ==
    made.ok => CredentialsPresent(made.adapter)

----------------------------------------------------------------------------
(* truncate on its own: an argument is drawn and truncate applied to it *)

MaxTruncLen == 24   \* arguments of every length 0..MaxTruncLen
MaxWide == 8        \* arguments of 0..MaxWide three-byte characters

Alphabet == <<"a", "b", "c", "d", "e", "f", "g">>

\* n characters that cycle through the alphabet from position off
Cyc(n, off) == [i \in 1..n |-> Alphabet[((i + off) % Len(Alphabet)) + 1]]

TruncInputs ==
    {Cyc(n, off) : n \in 0..MaxTruncLen, off \in {0, 3}}
    \cup {Cyc(n, 1) : n \in {99, 100, 101, 1000}}
    \cup {<<"1", "2", "3", "4", "5", "6", "7", "8", "9", "0">>
              \o <<"1", "2", "3", "4", "5", "6", "7", "8", "9", "0">> \o t : t \in {<<>>, <<"1">>}}
    \cup {Rep("U+4F60", n) : n \in 0..MaxWide}
    \cup {Cyc(n, 0) \o <<"U+00E9">> \o Cyc(MaxTruncLen - n, 2) : n \in 0..MaxTruncLen}

NoOutput == [kind |-> "None", text |-> <<>>]

InitTruncate ==
    /\ adapter = NoAdapter
    /\ context = 0
    /\ pc = "idle"
    /\ call = NoCall
    /\ req = NoRequest
    /\ resp = NoResponseYet
    /\ sent = 0
    /\ result = NoResult
    /\ FactoryIdle
    /\ PureIdle
    /\ tin \in TruncInputs
    /\ tout = NoOutput

Truncate ==
    /\ tout = NoOutput
    /\ tout' = truncate(tin)
    /\ UNCHANGED <<tin, adapterVars, factoryVars, pureVars>>

TruncateAgain ==
    /\ tout # NoOutput
    /\ \E s \in TruncInputs : tin' = s
    /\ tout' = NoOutput
    /\ UNCHANGED <<adapterVars, factoryVars, pureVars>>

NextTruncate == Truncate \/ TruncateAgain

SpecTruncate == InitTruncate /\ [][NextTruncate]_vars

\* Every character of s is one byte long
SingleByte(s) == \A i \in 1..Len(s) : Width(s[i]) = 1

DigitValue(c) ==
    CASE c = "0" -> 0 [] c = "1" -> 1 [] c = "2" -> 2 [] c = "3" -> 3 [] c = "4" -> 4
      [] c = "5" -> 5 [] c = "6" -> 6 [] c = "7" -> 7 [] c = "8" -> 8 [] c = "9" -> 9
      [] OTHER -> -1

IsNumeral(d) ==
    /\ d # <<>>
    /\ \A i \in 1..Len(d) : DigitValue(d[i]) >= 0
    /\ (Len(d) > 1 => d[1] # "0")

\* The number a decimal numeral stands for
RECURSIVE NumeralValue(_)
NumeralValue(d) ==
    IF d = <<>> THEN 0
    ELSE 10 * NumeralValue(SubSeq(d, 1, Len(d) - 1)) + DigitValue(d[Len(d)])

\* What the contract asks of truncate on the n characters of s
Truncated(s, out) ==
    LET n == Len(s)
        r == out.text
        mid == SubSeq(r, 11, Len(r) - 10)
    IN  /\ out.kind = "Ok"
        /\ (n <= 20 => r = s)
        /\ (n > 20 => /\ Len(r) > 20
                      /\ SubSeq(r, 1, 10) = SubSeq(s, 1, 10)
                      /\ SubSeq(r, Len(r) - 9, Len(r)) = SubSeq(s, n - 9, n)
                      /\ IsNumeral(mid)
                      /\ NumeralValue(mid) = n)
        /\ (n = 21 => r = SubSeq(s, 1, 10) \o <<"2", "1">> \o SubSeq(s, 12, 21))

\* C10: truncate returns every string of length at most 20 unchanged, and for
\* a string of length n > 20 returns its first 10 characters, then n in
\* decimal, then its last 10 characters; for 21 characters, first10 + "21" +
\* last10.
C10_Truncate == tout # NoOutput => Truncated(tin, tout)

\* truncate meets the contract on the strings whose characters are one byte
TruncateSingleByte == (tout # NoOutput /\ SingleByte(tin)) => Truncated(tin, tout)

TruncateSingleByteWitness ==
    /\ tout.kind = "Ok" /\ SingleByte(tin) /\ Len(tin) = 21
    /\ tout.text = SubSeq(tin, 1, 10) \o <<"2", "1">> \o SubSeq(tin, 12, 21)

\* C11: truncate counts characters, not bytes: on every string, multi-byte
\* ones included, it returns a result; a string of at most 20 characters comes
\* back unchanged, a longer one as its first 10 characters, its character
\* count in decimal and its last 10 characters.
C11_TruncateCountsCharacters ==
    tout # NoOutput
        => /\ tout.kind = "Ok"
           /\ tout.text = IF Len(tin) <= 20 THEN tin
                          ELSE SubSeq(tin, 1, 10) \o Dec(Len(tin))
                               \o SubSeq(tin, Len(tin) - 9, Len(tin))

----------------------------------------------------------------------------
(* The pure functions on their own: arguments are drawn and the function    *)
(* applied to them.                                                         *)

MaxSignLen == 23    \* signed queries of 1..MaxSignLen characters

PureFunctions == {"sign", "from_str", "round_trip", "decode", "solution", "salts", "mac"}

\* s with its i-th character replaced by c
ReplaceAt(s, i, c) == [k \in 1..Len(s) |-> IF k = i THEN c ELSE s[k]]

\* Two signature computations: the provider, the query, the position of the
\* one character that differs in the second query and the character put there
SignArgs ==
    {[provider |-> pr, q |-> Cyc(n, 0), pos |-> i, c |-> c, salt |-> sa, curtime |-> 1]
        : pr \in {"Baidu", "Youdao"}, n \in 1..MaxSignLen, i \in 1..MaxSignLen,
          c \in {"z", "U+00E9"}, sa \in {Salt0, <<"7", "-", "1">>}}

\* The documented identifiers, in lower case, with their provider
DocumentedAliases ==
    {<<Chars("b", "a", "i", "d", "u"), "Baidu">>,
     <<<<"y", "o", "u", "d", "a", "o">>, "Youdao">>,
     <<<<"a", "l", "i", "b", "a", "b", "a">>, "Alibaba">>,
     <<<<"a", "l", "i">>, "Alibaba">>,
     <<<<"c", "a", "i", "y", "u", "n">>, "Caiyun">>,
     <<<<"U+5F69", "U+4E91">>, "Caiyun">>,
     <<<<"m", "y", "m", "e", "m", "o", "r", "y">>, "MyMemory">>,
     <<<<"m", "y", "-", "m", "e", "m", "o", "r", "y">>, "MyMemory">>,
     <<<<"m", "y", " ", "m", "e", "m", "o", "r", "y">>, "MyMemory">>}

\* The upper-case form of a lower-case letter (other characters have none)
UpperChar(c) ==
    CASE c = "a" -> "A" [] c = "b" -> "B" [] c = "c" -> "C" [] c = "d" -> "D"
      [] c = "e" -> "E" [] c = "g" -> "G" [] c = "i" -> "I" [] c = "k" -> "K"
      [] c = "l" -> "L" [] c = "m" -> "M" [] c = "n" -> "N" [] c = "o" -> "O"
      [] c = "r" -> "R" [] c = "u" -> "U" [] c = "w" -> "W" [] c = "y" -> "Y"
      [] OTHER -> c

\* The spellings of w in every mix of upper and lower case
CaseVariants(w) ==
    {[i \in 1..Len(w) |-> IF m[i] THEN UpperChar(w[i]) ELSE w[i]]
        : m \in [1..Len(w) -> BOOLEAN]}

\* An identifier in lower case, and one of its spellings
FromStrArgs ==
    UNION {{[base |-> w, ident |-> v] : v \in CaseVariants(w)}
              : w \in {k[1] : k \in DocumentedAliases} \cup UnknownIdents}

Vocabularies == {"baidu", "youdao", "caiyun", "mymemory", "mymemory_short"}

\* Wire codes that the language-mapping tests of the adapters expect to decode
TestCodes ==
    {[vocabulary |-> "baidu", code |-> c]
        : c \in {<<"z", "h">>, <<"e", "n">>, <<"w", "y", "w">>}}
    \cup {[vocabulary |-> "youdao", code |-> c]
        : c \in {<<"z", "h", "-", "C", "H", "S">>, <<"e", "n">>, <<"o", "t", "q">>}}

\* The error codes of the published table, and codes that are not in it
ListedCodes ==
    {C("5", "2", "0", "0", "0"), C("5", "2", "0", "0", "1"), C("5", "2", "0", "0", "2"),
     C("5", "2", "0", "0", "3"), C("5", "4", "0", "0", "0"), C("5", "4", "0", "0", "1"),
     C("5", "4", "0", "0", "3"), C("5", "4", "0", "0", "4"), C("5", "4", "0", "0", "5"),
     C("5", "8", "0", "0", "0"), C("5", "8", "0", "0", "1"), C("5", "8", "0", "0", "2"),
     C("5", "8", "0", "0", "3"), C("9", "0", "1", "0", "7"), C("2", "0", "0", "0", "3")}

OtherCodes ==
    {<<>>, <<"0">>, <<"5", "2", "0", "0">>, <<"5", "2", "0", "0", "0", "0">>,
     C("5", "2", "0", "0", "4"), C("5", "4", "0", "0", "2"), C("9", "9", "9", "9", "9"),
     C("a", "b", "c", "d", "e"), <<" ", "5", "2", "0", "0", "0">>, <<"U+4F60">>}

\* Two calls on one adapter instance: the seed of its uuid Context, how many
\* calls came before the first of the two, how many calls the second comes
\* after the first, and the clock reading of each
SaltArgs ==
    [provider : {"Baidu", "Youdao"}, seed : {0, MaxSeed, U16 - 1}, before : 0..MaxSeq,
     apart : {1, 2, SeqMask - 1, SeqMask, SeqMask + 1, U16}, t1 : 0..MaxClock,
     t2 : 0..MaxClock, draw : MacDraws]

\* The salt of the request a call sends when it finds the Context counter at ctx
SaltOfCall(provider, draw, ctx, secs) ==
    IF provider = "Baidu"
    THEN BaiduPre(BaiduTranslatorNew(AppId, Key), TA, NoLang, "Chinese", ctx).req.salt
    ELSE YoudaoPre(YoudaoTranslatorNew(AppId, Key, draw), <<TA>>, NoLang, "Chinese",
                   ctx, secs).req.salt

\* The draws of rng.fill(&mut mac): every first byte, some other bytes
MacArgs == {<<b, o, 255 - o, 0, 255, (o + b) % 256>> : b \in 0..255, o \in {0, 1, 128, 255}}

ArgsOf(f) ==
    CASE f = "sign" -> {a \in SignArgs : a.pos <= Len(a.q)}
      [] f = "from_str" -> FromStrArgs
      [] f = "round_trip" -> [vocabulary : Vocabularies, lang : Languages]
      [] f = "decode" -> TestCodes
      [] f = "solution" -> ListedCodes \cup OtherCodes
      [] f = "salts" -> SaltArgs
      [] f = "mac" -> MacArgs

\* The signature a provider's code computes for query q
Signature(provider, q, salt, curtime) ==
    IF provider = "Baidu"
    THEN [kind |-> "Ok", sign |-> FormNew(AppId, q, salt, Key, Auto, to_baidu("English")).sign]
    ELSE LET signed == sign_str(AppId, q, salt, curtime, Key)
         IN  [kind |-> signed.kind,
              sign |-> IF signed.kind = "Panic" THEN NoSign ELSE sha256_encode(signed.text)]

InitPure ==
    /\ adapter = NoAdapter
    /\ context = 0
    /\ pc = "idle"
    /\ call = NoCall
    /\ req = NoRequest
    /\ resp = NoResponseYet
    /\ sent = 0
    /\ result = NoResult
    /\ FactoryIdle
    /\ TruncIdle
    /\ fname \in PureFunctions
    /\ fargs \in ArgsOf(fname)
    /\ fret = NoReturn

\* The signature of fargs.q, and of fargs.q with one character replaced
Sign ==
    /\ fname = "sign"
    /\ fret.kind = "None"
    /\ LET a == fargs
           s1 == Signature(a.provider, a.q, a.salt, a.curtime)
           s2 == Signature(a.provider, ReplaceAt(a.q, a.pos, a.c), a.salt, a.curtime)
       IN  fret' = [kind |-> IF s1.kind = "Ok" /\ s2.kind = "Ok" THEN "Ok" ELSE "Panic",
                    s1 |-> s1.sign, s2 |-> s2.sign]
    /\ UNCHANGED <<fname, fargs, adapterVars, factoryVars, truncVars>>

\* from_str and parse of fargs.ident
FromStr ==
    /\ fname = "from_str"
    /\ fret.kind = "None"
    /\ fret' = [kind |-> "Ok", from_str |-> from_str(fargs.ident),
                 parse |-> parse(fargs.ident)]
    /\ UNCHANGED <<fname, fargs, adapterVars, factoryVars, truncVars>>

\* to_<vocabulary> of a language and from_<vocabulary> of the code it gave
RoundTrip ==
    /\ fname = "round_trip"
    /\ fret.kind = "None"
    /\ LET code == Encode(fargs.vocabulary, fargs.lang)
       IN  fret' = [kind |-> "Ok", code |-> code,
                    back |-> IF code = NoCode THEN NoLang
                             ELSE Decode(fargs.vocabulary, code)]
    /\ UNCHANGED <<fname, fargs, adapterVars, factoryVars, truncVars>>

\* from_<vocabulary> of a wire code
DecodeCode ==
    /\ fname = "decode"
    /\ fret.kind = "None"
    /\ fret' = [kind |-> "Ok", lang |-> Decode(fargs.vocabulary, fargs.code)]
    /\ UNCHANGED <<fname, fargs, adapterVars, factoryVars, truncVars>>

\* BaiduApiError::solution of an error whose code is fargs
Solution ==
    /\ fname = "solution"
    /\ fret.kind = "None"
    /\ fret' = [kind |-> "Ok", text |-> solution(fargs)]
    /\ UNCHANGED <<fname, fargs, adapterVars, factoryVars, truncVars>>

\* The salts of two requests of one instance; every call in between advanced
\* the Context counter by one (fetch_add), whatever the interleaving
Salts ==
    /\ fname = "salts"
    /\ fret.kind = "None"
    /\ LET a == fargs
           c1 == (a.seed + a.before) % U16
           c2 == (a.seed + a.before + a.apart) % U16
       IN  fret' = [kind |-> "Ok",
                    salt1 |-> SaltOfCall(a.provider, a.draw, c1, a.t1),
                    salt2 |-> SaltOfCall(a.provider, a.draw, c2, a.t2)]
    /\ UNCHANGED <<fname, fargs, adapterVars, factoryVars, truncVars>>

\* generate_random_mac with the bytes fargs drawn
Mac ==
    /\ fname = "mac"
    /\ fret.kind = "None"
    /\ fret' = [kind |-> "Ok", mac |-> generate_random_mac(fargs)]
    /\ UNCHANGED <<fname, fargs, adapterVars, factoryVars, truncVars>>

NextPure == Sign \/ FromStr \/ RoundTrip \/ DecodeCode \/ Solution \/ Salts \/ Mac

SpecPure == InitPure /\ [][NextPure]_vars

\* C12 as stated: two signature computations that differ in a single character
\* of the query text, all else equal, give different signatures (Baidu
\* Form::new, Youdao sha256_encode over the sign string).
C12_SingleCharacterChangesSignature ==
    (fname = "sign" /\ fret.kind = "Ok") => fret.s1 # fret.s2

\* The replaced character lies in the part of the query that truncate drops,
\* and the replacement leaves the byte length as it was
InDroppedMiddle(q, pos, c) ==
    /\ ByteLen(q) > 20
    /\ Width(c) = Width(q[pos])
    /\ Offset(q, pos) >= 10
    /\ Offset(q, pos) + Width(q[pos]) <= ByteLen(q) - 10

\* C12 (amended): a Baidu signature changes with every single-character change
\* of the query; a Youdao signature changes exactly when the change reaches
\* what truncate keeps of the query (its first 10 bytes, its byte length, its
\* last 10 bytes) and is the same when it falls in the dropped middle.
C12_SignatureFollowsSignedText ==
    (fname = "sign" /\ fret.kind = "Ok")
        => /\ (fargs.provider = "Baidu" => fret.s1 # fret.s2)
           /\ (fargs.provider = "Youdao"
                  => ((fret.s1 = fret.s2) <=> InDroppedMiddle(fargs.q, fargs.pos, fargs.c)))

C12_Witness ==
    /\ fname = "sign" /\ fret.kind = "Ok" /\ fargs.provider = "Youdao"
    /\ Len(fargs.q) = 21 /\ fargs.pos = 11 /\ fret.s1 = fret.s2

----------------------------------------------------------------------------
\* C13: no call writes a field of the adapter instance: every field (the uuid
\* Context of a Youdao instance included) has the same value before and after
\* every step of a translate or translate_vec call.
C13_CallsWriteNoField == [][adapter' = adapter /\ context' = context]_vars

\* A call that sent its request and got an error back
FailedAfterSend ==
    Done /\ resp.transport # "none" /\ result.kind = "Err"

\* C14: a translate or translate_vec call sends at most one request, on every
\* adapter; a call whose request failed (transport, decoding or a provider
\* rejection) returns the error having sent that one request only.
C14_AtMostOneRequest ==
    /\ sent <= 1
    /\ (FailedAfterSend => sent = 1)

C14_Witness ==
    /\ FailedAfterSend
    /\ result \in {ReqwestSend, ReqwestDecode} \/ result.tag = "ApiError"
    /\ sent = 1

\* C15: parsing a provider identifier ignores letter case and accepts the
\* documented aliases: every spelling of an identifier, in any mix of upper and
\* lower case, gives what its lower-case spelling gives; each documented alias
\* gives its one provider, from from_str and from parse alike, and anything
\* else gives Err / None.
C15_ParseIgnoresCase ==
    (fname = "from_str" /\ fret.kind = "Ok")
        => /\ \A k \in DocumentedAliases :
                 fargs.base = k[1] => fret.from_str = k[2] /\ fret.parse = k[2]
           /\ (fargs.base \notin {k[1] : k \in DocumentedAliases}
                  => fret.from_str = "Err" /\ fret.parse = "None")

C15_Witness ==
    /\ fname = "from_str" /\ fret.kind = "Ok"
    /\ fargs.ident = <<"M", "y", " ", "m", "E", "m", "o", "R", "Y">>
    /\ fret.parse = "MyMemory"

\* C16: in Alibaba and MyMemory (limit 500) a call is refused with
\* RequestToLong, carrying the length of the text and the limit, exactly when
\* the text that would be sent (for translate_vec the joined text) is longer
\* than the limit in bytes; a text of exactly the limit passes; the refused
\* call sends nothing, so the error is never a network failure.
C16_OverLimitIsRequestToLong ==
    (Done /\ HasLimit(adapter.kind))
        => /\ adapter.input_limit = InputLimit
           /\ IF ByteLen(CallText) > InputLimit
              THEN result = RequestToLong(ByteLen(CallText), InputLimit) /\ sent = 0
              ELSE result.tag # "RequestToLong"

C16_Witness ==
    /\ Done /\ adapter.kind = "MyMemory" /\ call.op = "translate"
    /\ ByteLen(CallText) = InputLimit + 1
    /\ result = RequestToLong(InputLimit + 1, InputLimit)

\* A text of exactly the limit went out
C16_AtLimitAccepted ==
    /\ Done /\ HasLimit(adapter.kind) /\ ByteLen(CallText) = InputLimit /\ sent = 1

PublishedTable ==
    {<<C("5", "2", "0", "0", "0"), "success">>,
     <<C("5", "2", "0", "0", "1"), "request timed out">>,
     <<C("5", "2", "0", "0", "2"), "system error">>,
     <<C("5", "2", "0", "0", "3"), "unauthorized user">>,
     <<C("5", "4", "0", "0", "0"), "required parameter is empty">>,
     <<C("5", "4", "0", "0", "1"), "signature error">>,
     <<C("5", "4", "0", "0", "3"), "access frequency limited">>,
     <<C("5", "4", "0", "0", "4"), "insufficient account balance">>,
     <<C("5", "4", "0", "0", "5"), "long queries too frequent">>,
     <<C("5", "8", "0", "0", "0"), "client IP illegal">>,
     <<C("5", "8", "0", "0", "1"), "target language direction not supported">>,
     <<C("5", "8", "0", "0", "2"), "service is offline">>,
     <<C("5", "8", "0", "0", "3"), "IP banned for using several appids">>,
     <<C("9", "0", "1", "0", "7"), "certification not passed or expired">>,
     <<C("2", "0", "0", "0", "3"), "check the text for forbidden content">>}

\* C18: solution returns a message for every error code: each of the 15
\* published codes gets its own entry of the table, and every other code, the
\* empty string included, gets the generic unknown-error entry.
C18_SolutionTotal ==
    (fname = "solution" /\ fret.kind = "Ok")
        => /\ \A e \in PublishedTable : fargs = e[1] => fret.text = e[2]
           /\ (fargs \notin {e[1] : e \in PublishedTable} => fret.text = "unknown error")
           /\ Cardinality({e[2] : e \in PublishedTable} \cup {"unknown error"}) = 16

C18_Witness ==
    /\ fname = "solution" /\ fret.kind = "Ok"
    /\ fargs = <<>> /\ fret.text = "unknown error"

\* C19: local() is false for every adapter, whatever it was constructed with,
\* before, during and after its translate calls, and for every adapter a
\* factory function returns.
C19_NeverLocal ==
    /\ (adapter # NoAdapter => ~local(adapter))
    /\ (made.ok => ~local(made.adapter))

C19_Witness ==
    /\ adapter.kind = "MyMemory" /\ Done /\ result.kind = "Ok" /\ ~local(adapter)

\* An adapter a factory function returned is not local
C19_MadeNotLocal ==
    made.ok /\ made.adapter.kind = "Youdao" /\ ~local(made.adapter)

\* C20: in every signed request the signature is computed from the values
\* the request transmits: Baidu sign = md5 of appid + q + salt + key, Youdao
\* sign = sha256 of appKey + truncate(q) + salt + curtime + appSecret, for the
\* appid / appKey, q, salt and curtime of the form, q being the input, for a
\* batch the newline-joined input.
C20_SignatureOfTransmittedValues ==
    /\ (sent = 1 /\ adapter.kind = "Baidu")
          => /\ req.q = Join(call.query, <<LF>>)
             /\ req.appid = adapter.id
             /\ req.sign = [alg |-> "md5",
                            data |-> req.appid \o req.q \o req.salt \o adapter.secret]
    /\ (sent = 1 /\ adapter.kind = "Youdao")
          => /\ req.q = Join(call.query, <<LF>>)
             /\ req.appid = adapter.id
             /\ truncate(req.q).kind = "Ok"
             /\ req.sign = [alg |-> "sha256",
                            data |-> req.appid \o truncate(req.q).text \o req.salt
                                     \o Dec(req.curtime) \o adapter.secret]

C20_Witness ==
    /\ sent = 1 /\ adapter.kind = "Youdao" /\ adapter.id = AppId
    /\ ByteLen(req.q) > TruncateMax
    /\ req.sign.alg = "sha256"

\* A signed Baidu batch went out
C20_BaiduBatchSigned ==
    /\ sent = 1 /\ adapter.kind = "Baidu" /\ call.op = "translate_vec"
    /\ Len(call.query) = 2 /\ req.sign.alg = "md5"

\* C21: every two requests sent by one Youdao instance carry different salts,
\* also when the two calls read the same wall-clock time.
C21_YoudaoNoncesDiffer ==
    (fname = "salts" /\ fret.kind = "Ok" /\ fargs.provider = "Youdao")
        => fret.salt1 # fret.salt2

\* C22: the salt of a signed Baidu request is used once: no two requests sent
\* by one Baidu instance carry the same salt.
C22_BaiduSaltSingleUse ==
    (fname = "salts" /\ fret.kind = "Ok" /\ fargs.provider = "Baidu")
        => fret.salt1 # fret.salt2

\* Two Youdao salts differ when the clock readings differ or the calls are
\* not a multiple of 2^14 calls apart
YoudaoNoncesDifferInWindow ==
    (fname = "salts" /\ fret.kind = "Ok" /\ fargs.provider = "Youdao"
       /\ (fargs.t1 # fargs.t2 \/ fargs.apart % SeqMask # 0))
        => fret.salt1 # fret.salt2

YoudaoNoncesRepeat ==
    /\ fname = "salts" /\ fret.kind = "Ok" /\ fargs.provider = "Youdao"
    /\ fargs.apart = SeqMask /\ fargs.t1 = fargs.t2 /\ fret.salt1 = fret.salt2

----------------------------------------------------------------------------
\* The body of the response has the fields of the success shape
HasSuccessFields == resp.to.t = "str" /\ resp.trans_result.t = "list"

\* A JSON body came back to a Baidu translate call
BaiduBody ==
    GotResponse /\ adapter.kind = "Baidu" /\ call.op = "translate" /\ resp.json

\* C23: the Baidu decoder tries the success shape first and the error shape
\* second: a body with to and trans_result is decoded as a success even when
\* it has the error fields too; a body without them that has error_code and
\* error_msg is decoded as the error payload; a body of neither shape gives a
\* decode error, neither a success nor an ApiError.
C23_SuccessShapeFirst ==
    BaiduBody
        => /\ HasSuccessFields
                => /\ result.tag \notin {"ApiError", "ReqwestDecode"}
                   /\ (result.kind = "Ok" => result.text = Join(resp.trans_result.v, <<LF>>))
           /\ (~HasSuccessFields /\ ErrorPayload)
                => result.tag = "ApiError" /\ result.estr = resp.error_code.v
           /\ (~HasSuccessFields /\ ~ErrorPayload) => result = ReqwestDecode

C23_Witness ==
    /\ BaiduBody /\ HasSuccessFields
    /\ resp.error_code.t = "str" /\ resp.error_msg.t = "str"
    /\ result.kind = "Ok"

----------------------------------------------------------------------------
\* C24: a successful Baidu response whose target code from_baidu does not
\* recognise gives CouldNotMapLanguage carrying that wire string, never a
\* success with a missing or substituted language; on success lang is the
\* Language decoded from the response's to.
C24_TargetDecodedFromResponse ==
    (GotResponse /\ adapter.kind = "Baidu" /\ resp.json /\ HasSuccessFields)
        => IF from_baidu(resp.to.v) = NoLang
           THEN result = CouldNotMapLanguage(resp.to.v)
           ELSE result.kind \in {"Ok", "OkList"} /\ result.lang = from_baidu(resp.to.v)

C24_Witness ==
    /\ GotResponse /\ adapter.kind = "Baidu" /\ resp.json /\ HasSuccessFields
    /\ from_baidu(resp.to.v) = NoLang
    /\ result.tag = "CouldNotMapLanguage" /\ result.estr = resp.to.v

\* A Baidu success whose language differs from the one the caller asked for
C24_LanguageOfResponse ==
    /\ GotResponse /\ adapter.kind = "Baidu" /\ result.kind = "Ok"
    /\ result.lang # call.to /\ result.lang = from_baidu(resp.to.v)

----------------------------------------------------------------------------
\* The source part of a Caiyun trans_type "<source>2<target>"
SourcePart(trans_type) == SubSeq(trans_type, 1, FindFirst(trans_type, <<"2">>) - 1)

\* A request went out of a Caiyun call
CaiyunSent == adapter.kind = "Caiyun" /\ sent >= 1

\* C25: a Caiyun request has detect = true exactly when the caller passed no
\* source language, which is exactly when the source part of trans_type is
\* "auto"; with a source language detect is omitted and trans_type starts
\* with that language's wire code.
C25_DetectIffNoSource ==
    CaiyunSent
        => /\ req.detect = "true" <=> call.from = NoLang
           /\ call.from = NoLang <=> SourcePart(req.from) = Auto
           /\ call.from # NoLang
                => /\ req.detect = "omitted"
                   /\ StartsAt(req.from, 1, to_caiyun(call.from) \o <<"2">>)

C25_Witness ==
    /\ CaiyunSent /\ call.from # NoLang
    /\ req.detect = "omitted" /\ SourcePart(req.from) = to_caiyun(call.from)

\* A Caiyun request that asks for detection
C25_AutoRequest == CaiyunSent /\ call.from = NoLang /\ req.detect = "true"

----------------------------------------------------------------------------
\* A translate_vec call of an adapter that batches with the delimiter
BatchCall == HasLimit(adapter.kind) /\ call.op = "translate_vec"

\* The number of (non-overlapping) occurrences of the delimiter in a text
Occurrences(s) == Len(Split(s, Delimiter)) - 1

\* C26: translate_vec of Alibaba and MyMemory sends one request whose text is
\* the inputs joined in order by "_._._" and returns the text translate gives
\* for the response, split on that delimiter; when no input contains the
\* delimiter and the provider's text has exactly N-1 occurrences of it, the
\* result has exactly N segments.
C26_JoinThenSplit ==
    BatchCall
        => /\ pc \in {"sent", "done"} /\ sent >= 1
                => sent = 1 /\ req.q = Join(call.query, Delimiter)
           /\ GotResponse /\ TranslatePost(adapter, call.to, resp).kind = "Ok"
                => result = TranslationListOutput(
                                Split(TranslatePost(adapter, call.to, resp).text, Delimiter),
                                call.to)
           /\ (/\ GotResponse /\ is_success(resp.status) /\ resp.json
               /\ resp.text.t = "str"
               /\ \A i \in 1..Len(call.query) : Occurrences(call.query[i]) = 0
               /\ Occurrences(resp.text.v) = Len(call.query) - 1)
                => result.kind = "OkList" /\ Len(result.list) = Len(call.query)

C26_Witness ==
    /\ BatchCall /\ GotResponse /\ Len(call.query) = 3
    /\ req.q = Join(call.query, Delimiter)
    /\ resp.text.t = "str" /\ Occurrences(resp.text.v) = 2
    /\ result.kind = "OkList" /\ Len(result.list) = 3

----------------------------------------------------------------------------
\* Bit k of a byte (bit 0 the lowest)
Bit(b, k) == (b \div (2 ^ k)) % 2

\* C27: for every draw the node identifier of generate_random_mac has bit 1 of
\* its first byte set and bit 0 cleared; the other six bits of the first byte
\* and the other five bytes are the drawn values.
C27_LocallyAdministeredUnicast ==
    (fname = "mac" /\ fret.kind = "Ok")
        => /\ Len(fret.mac) = 6
           /\ Bit(fret.mac[1], 1) = 1
           /\ Bit(fret.mac[1], 0) = 0
           /\ \A k \in 2..7 : Bit(fret.mac[1], k) = Bit(fargs[1], k)
           /\ fret.mac[1] \in 0..255
           /\ \A i \in 2..6 : fret.mac[i] = fargs[i]

C27_Witness ==
    /\ fname = "mac" /\ fret.kind = "Ok"
    /\ Bit(fargs[1], 1) = 0 /\ Bit(fargs[1], 0) = 1 /\ fargs[1] > 3
    /\ fret.mac[1] = fargs[1] + 1

----------------------------------------------------------------------------
\* A step that is a whole call stopped by local validation: an unmappable
\* source or target language, or an input over the limit
FailsValidation ==
    /\ pc = "idle" /\ pc' = "done"
    /\ result'.tag \in {"UnknownLanguage", "RequestToLong"}

\* C28: a call that fails local validation leaves the adapter instance
\* unchanged: every field, the sequence counter of the Youdao nonce context
\* included, has the value it had before the call.
C28_FailedValidationChangesNothing ==
    [][FailsValidation => (adapter' = adapter /\ context' = context)]_vars

\* A failed validation changes no field other than the Youdao Context counter
FailedValidationKeepsFields ==
    [][FailsValidation
         => /\ adapter' = adapter
            /\ adapter.kind # "Youdao" => context' = context]_vars

\* A Youdao call refused for its language has advanced the Context counter
YoudaoRefusedAfterCount ==
    /\ adapter.kind = "Youdao" /\ Done /\ sent = 0
    /\ result.tag = "UnknownLanguage" /\ context > 0

----------------------------------------------------------------------------
\* A translate call of Alibaba or MyMemory got a success response whose
\* translated-text field is a JSON string
StringTextBody ==
    /\ GotResponse /\ HasLimit(adapter.kind) /\ call.op = "translate"
    /\ is_success(resp.status) /\ resp.json /\ resp.text.t = "str"

\* C29: when the translated-text field is a JSON string, the text of the
\* output is the decoded value of that string, for every value (double quotes,
\* backslashes and line breaks included): the enclosing quotes are removed and
\* no escape sequence remains.
C29_TextIsDecodedString ==
    StringTextBody => result.kind = "Ok" /\ result.text = resp.text.v

\* The output is the JSON text of the string without its enclosing quotes
TextIsJsonTextUnquoted ==
    StringTextBody => result.kind = "Ok" /\ result.text = Escape(resp.text.v)

\* An output that still holds an escape sequence
EscapeSequenceInOutput ==
    /\ StringTextBody /\ result.kind = "Ok"
    /\ resp.text.v = <<"x", QUOTE, "y">>
    /\ result.text = <<"x", BACKSLASH, QUOTE, "y">>

====
